---- MODULE Spec2Model ----
(***************************************************************************)
(* A model of the weighting-and-scoring engine of the location selection   *)
(* tool: parse_ahp_structure, get_user_weights, compute_global_weights and *)
(* compute_country_scores of streamlit_app.py, and the two selection       *)
(* filters of filter_functions.py.                                         *)
(*                                                                         *)
(* Numbers.  Slider values are multiples of the slider step 0.01, so a raw *)
(* weight is an integer number of steps.  Normalised weights and scores    *)
(* are exact rationals <<n, d>> in lowest terms with d > 0: the model      *)
(* states what the arithmetic of the code computes over the reals, and     *)
(* says nothing about IEEE-754 rounding.                                   *)
(*                                                                         *)
(* Python dicts are sequences of [k, v] entries with distinct keys, in     *)
(* insertion order, as the language keeps them.                            *)
(***************************************************************************)
EXTENDS Integers, Sequences, FiniteSets, TLC

VARIABLES
    levels,          \* the "levels" list of the hierarchy JSON
    hierarchy,       \* what parse_ahp_structure returned
    df,              \* the entity table handed to the operation under way
    lookup,          \* the country code -> name table
    session,         \* st.session_state: the persisted selection maps
    order,           \* which filter the page runs first
    selected_codes,  \* returned by select_and_filter_criteria
    selected_countries, \* returned by select_and_filter_countries
    df_filtered,     \* the table the filters returned
    raw,             \* the slider values read by get_user_weights
    weights,         \* the nested dict returned by get_user_weights
    warnings,        \* what was shown with st.warning / st.error
    global_weights,  \* returned by compute_global_weights
    ranking,         \* returned by compute_country_scores
    pc,              \* position of the script run
    err              \* the exception that ended the run, "" if none

vars == <<levels, hierarchy, df, lookup, session, order, selected_codes,
          selected_countries, df_filtered, raw, weights, warnings,
          global_weights, ranking, pc, err>>

----------------------------------------------------------------------------
\* Bounds of the model.

\* Slider positions explored, in steps of 0.01 from 0.
MaxRaw == 2
\* Largest cell value of a table.
MaxVal == 1
\* Most rows of a table.
MaxRows == 2

----------------------------------------------------------------------------
\* Exact rational arithmetic.

Abs(n) == IF n < 0 THEN -n ELSE n

RECURSIVE GCD(_, _)
GCD(a, b) == IF b = 0 THEN a ELSE GCD(b, a % b)

\* n/d in lowest terms, d > 0.
Rat(n, d) ==
    LET g == GCD(Abs(n), Abs(d))
        s == IF d < 0 THEN -1 ELSE 1
    IN  <<(s * n) \div g, (s * d) \div g>>

Zero == <<0, 1>>
One == <<1, 1>>
RAdd(x, y) == Rat(x[1] * y[2] + y[1] * x[2], x[2] * y[2])
RMul(x, y) == Rat(x[1] * y[1], x[2] * y[2])
RDiv(x, y) == Rat(x[1] * y[2], x[2] * y[1])
RLe(x, y) == x[1] * y[2] <= y[1] * x[2]
RLt(x, y) == x[1] * y[2] < y[1] * x[2]

RECURSIVE RSumSeq(_)
RSumSeq(s) == IF s = <<>> THEN Zero ELSE RAdd(Head(s), RSumSeq(Tail(s)))

----------------------------------------------------------------------------
\* Python dicts.

DictKeys(d) == {d[i].k : i \in DOMAIN d}
DictHas(d, key) == \E i \in DOMAIN d : d[i].k = key
DictGet(d, key) == d[CHOOSE i \in DOMAIN d : d[i].k = key].v
\* d[key] = val: an existing key keeps its place, a new one goes last.
DictSet(d, key, val) ==
    IF DictHas(d, key)
    THEN [i \in DOMAIN d |-> IF d[i].k = key THEN [k |-> key, v |-> val] ELSE d[i]]
    ELSE Append(d, [k |-> key, v |-> val])
DictValues(d) == [i \in DOMAIN d |-> d[i].v]

Range(s) == {s[i] : i \in DOMAIN s}
NoDup(s) == \A i, j \in DOMAIN s : s[i] = s[j] => i = j

----------------------------------------------------------------------------
\* JSON values of the hierarchy file.

JStr(s) == [t |-> "str", s |-> s]
JDict(d) == [t |-> "dict", d |-> d]
JList(xs) == [t |-> "list", xs |-> xs]
\* a JSON value that is no list (a string, a number, null)
JScalar == [t |-> "scalar"]

IdCol == "country_code"
WeightKey == "weight"

----------------------------------------------------------------------------
\* parse_ahp_structure (streamlit_app.py).  A level and a criterion are JSON
\* objects: functions whose domain is the set of keys present.

EmptyHierarchy == [x \in {} |-> x]

LevelKeys == {"id", "label", "elements"}
CriterionKeys == {"label", "code"}

\* line 71: a list element that is kept as a criterion
WellFormedCriterion(e) == e.t = "dict" /\ CriterionKeys \subseteq DOMAIN e.d

RECURSIVE ParseCriteria(_)
\* lines 69-74
ParseCriteria(elements) ==
    IF elements = <<>> THEN <<>>
    ELSE LET e == Head(elements)
         IN  (IF WellFormedCriterion(e)
              THEN <<[label |-> e.d.label, code |-> e.d.code]>>
              ELSE <<>>) \o ParseCriteria(Tail(elements))

\* lines 58-65: the level is skipped
SkippedLevel(level) ==
    \/ ~(LevelKeys \subseteq DOMAIN level)
    \/ level.elements.t # "list"
    \/ level.elements.xs = <<>>

\* lines 56-77, one iteration: hierarchy after the level
ParseLevel(h, level) ==
    IF SkippedLevel(level) THEN h
    ELSE IF level.elements.xs[1].t = "dict"
    THEN (level.id :> [label |-> level.label,
                       criteria |-> ParseCriteria(level.elements.xs)]) @@ h
    ELSE (level.id :> [label |-> level.label,
                       sublevels |-> level.elements.xs]) @@ h

RECURSIVE ParseLevels(_, _)
ParseLevels(h, ls) ==
    IF ls = <<>> THEN h ELSE ParseLevels(ParseLevel(h, Head(ls)), Tail(ls))

\* HasTop without the test of line 80 for "sublevels"
HasTop_AnyTop(h) == "top" \in DOMAIN h

\* lines 79-82
HasTop(h) == "top" \in DOMAIN h /\ "sublevels" \in DOMAIN h["top"]

parse_ahp_structure(ls) ==
    LET h == ParseLevels(EmptyHierarchy, ls)
    IN  IF HasTop(h) THEN h ELSE EmptyHierarchy

\* the diagnostics of lines 59, 64, 72 and 81
ParseWarnings(ls) ==
    {<<"malformed level">> : i \in {j \in DOMAIN ls : ~(LevelKeys \subseteq DOMAIN ls[j])}}
    \cup {<<"level has no elements">> :
            i \in {j \in DOMAIN ls : /\ LevelKeys \subseteq DOMAIN ls[j]
                                     /\ SkippedLevel(ls[j])}}
    \cup {<<"malformed criterion">> :
            i \in {j \in DOMAIN ls :
                     /\ ~SkippedLevel(ls[j])
                     /\ ls[j].elements.xs[1].t = "dict"
                     /\ \E n \in DOMAIN ls[j].elements.xs :
                            ~WellFormedCriterion(ls[j].elements.xs[n])}}
    \cup (IF HasTop(ParseLevels(EmptyHierarchy, ls)) THEN {} ELSE {<<"no top level">>})

----------------------------------------------------------------------------
\* Tables.  A table is [cols, rows]: the column names in order, and the rows,
\* each [id, cells] with cells a function from the criterion columns to a
\* cell.  A cell is {} (NaN, no data) or {v}.  The id of a row is the value of
\* its country_code column; it is "" in a table that has no such column.

Missing == {}
CellOf(v) == {v}
CellValue(c) == CHOOSE v \in c : TRUE

HasIdCol(table) == IdCol \in Range(table.cols)
\* set(df.columns) - {"country_code"}
AvailableCodes(table) == Range(table.cols) \ {IdCol}
\* df.empty: no rows or no columns
IsEmptyTable(table) == table.rows = <<>> \/ table.cols = <<>>

----------------------------------------------------------------------------
\* get_user_weights (streamlit_app.py, lines 145-244).  SliderStep is the step
\* of every slider: a slider at position r holds r * 0.01.

SliderStep == 100
SliderValue(r) == Rat(r, SliderStep)

\* hierarchy["top"]["sublevels"], line 155
TopSublevels(h) == h["top"].sublevels

\* lines 192-194: the criteria of pillar s that are columns of the table
PillarCriteria(h, s, table) ==
    IF "criteria" \in DOMAIN h[s]
    THEN SelectSeq(h[s].criteria, LAMBDA c : c.code \in AvailableCodes(table))
    ELSE <<>>

\* lines 160-164, one iteration.  acc = [w, total, labels, err].  A sublevel
\* that is no key of the hierarchy raises KeyError at hierarchy[sub]; two
\* sliders created without a key from the same label and arguments raise
\* Streamlit's duplicate widget error.
PillarSlider(h, acc, sub, r) ==
    IF acc.err # "" THEN acc
    ELSE IF sub.t # "str" THEN [acc EXCEPT !.err = "TypeError"]
    ELSE IF sub.s \notin DOMAIN h THEN [acc EXCEPT !.err = "KeyError"]
    ELSE IF h[sub.s].label \in acc.labels
    THEN [acc EXCEPT !.err = "DuplicateWidgetID"]
    ELSE [w |-> DictSet(acc.w, sub.s, <<[k |-> WeightKey, v |-> SliderValue(r)]>>),
          total |-> RAdd(acc.total, SliderValue(r)),
          labels |-> acc.labels \cup {h[sub.s].label},
          err |-> ""]

RECURSIVE PillarSliders(_, _, _, _, _)
PillarSliders(h, acc, subs, rawTop, i) ==
    IF i > Len(subs) THEN acc
    ELSE PillarSliders(h, PillarSlider(h, acc, subs[i], rawTop[i]), subs, rawTop, i + 1)

\* lines 167-173: the pillar weights normalised
NormalizePillars(w, total) ==
    IF total = Zero
    THEN [i \in DOMAIN w |->
            [k |-> w[i].k, v |-> DictSet(w[i].v, WeightKey, Rat(1, Len(w)))]]
    ELSE [i \in DOMAIN w |->
            [k |-> w[i].k,
             v |-> DictSet(w[i].v, WeightKey, RDiv(DictGet(w[i].v, WeightKey), total))]]

RECURSIVE CriterionSliders(_, _, _, _)
\* lines 207-212.  acc = [items, total, seen, err]; the slider's key is
\* w_<sub>_<code>, so a code met twice in one pillar is a duplicate key.
CriterionSliders(acc, criteria, rawCrit, i) ==
    IF i > Len(criteria) \/ acc.err # "" THEN acc
    ELSE LET code == criteria[i].code
         IN  IF code \in acc.seen
             THEN [acc EXCEPT !.err = "DuplicateWidgetID"]
             ELSE CriterionSliders(
                    [items |-> DictSet(acc.items, code, SliderValue(rawCrit[i])),
                     total |-> RAdd(acc.total, SliderValue(rawCrit[i])),
                     seen |-> acc.seen \cup {code},
                     err |-> ""],
                    criteria, rawCrit, i + 1)

RECURSIVE NormalizeCriteria(_, _, _, _)
\* lines 215-221: one assignment per criterion, in order
NormalizeCriteria(items, criteria, total, i) ==
    IF i > Len(criteria) THEN items
    ELSE LET code == criteria[i].code
         IN  NormalizeCriteria(
               DictSet(items, code,
                       IF total = Zero THEN Rat(1, Len(criteria))
                       ELSE RDiv(DictGet(items, code), total)),
               criteria, total, i + 1)

\* lines 189-221, one pillar.  acc = [w, warn, err]
PillarScope(h, table, acc, s, rawCrit) ==
    IF acc.err # "" THEN acc
    ELSE LET criteria == PillarCriteria(h, s, table)
         IN  IF criteria = <<>>
             THEN [acc EXCEPT !.err = "ZeroDivisionError"]      \* line 205
             ELSE LET sl == CriterionSliders(
                              [items |-> DictGet(acc.w, s), total |-> Zero,
                               seen |-> {}, err |-> ""],
                              criteria, rawCrit, 1)
                  IN  IF sl.err # "" THEN [acc EXCEPT !.err = sl.err]
                      ELSE [w |-> DictSet(acc.w, s,
                                    NormalizeCriteria(sl.items, criteria, sl.total, 1)),
                            warn |-> acc.warn \cup
                                     (IF sl.total = Zero
                                      THEN {<<"all criteria 0", s>>} ELSE {}),
                            err |-> ""]

RECURSIVE PillarScopes(_, _, _, _, _, _)
PillarScopes(h, table, acc, subs, rawCrit, i) ==
    IF i > Len(subs) THEN acc
    ELSE PillarScopes(h, table,
                      PillarScope(h, table, acc, subs[i].s, rawCrit[i]),
                      subs, rawCrit, i + 1)

\* The whole function: [w, warn, err].  w is the returned dict when err = "".
get_user_weights(h, table, rawTop, rawCrit) ==
    LET subs == TopSublevels(h)
        p == PillarSliders(h, [w |-> <<>>, total |-> Zero, labels |-> {}, err |-> ""],
                           subs, rawTop, 1)
    IN  IF p.err # "" THEN [w |-> <<>>, warn |-> {}, err |-> p.err]
        ELSE LET r == PillarScopes(
                        h, table,
                        [w |-> NormalizePillars(p.w, p.total),
                         warn |-> IF p.total = Zero
                                  THEN {<<"all main category weights 0">>} ELSE {},
                         err |-> ""],
                        subs, rawCrit, 1)
             IN  IF r.err # "" THEN [w |-> <<>>, warn |-> r.warn, err |-> r.err]
                 ELSE r

----------------------------------------------------------------------------
\* compute_global_weights (streamlit_app.py, lines 250-259)

RECURSIVE GlobalItems(_, _, _, _)
\* lines 255-258: the items of one pillar, in order
GlobalItems(gw, pillar_weight, items, i) ==
    IF i > Len(items) THEN gw
    ELSE GlobalItems(
           IF items[i].k = WeightKey THEN gw
           ELSE DictSet(gw, items[i].k, RMul(pillar_weight, items[i].v)),
           pillar_weight, items, i + 1)

RECURSIVE GlobalPillars(_, _, _)
\* lines 253-258
GlobalPillars(gw, w, i) ==
    IF i > Len(w) THEN gw
    ELSE LET items == w[i].v
             pillar_weight == IF DictHas(items, WeightKey)
                              THEN DictGet(items, WeightKey) ELSE Zero
         IN  GlobalPillars(GlobalItems(gw, pillar_weight, items, 1), w, i + 1)

compute_global_weights(w) == GlobalPillars(<<>>, w, 1)

----------------------------------------------------------------------------
\* compute_country_scores (streamlit_app.py, lines 291-332)

\* Contribution without its test of line 315: a criterion that is no column
\* of the table counts as a cell holding 1.
Contribution_AbsentColumnCounts(table, row, crit, w) ==
    IF crit \notin Range(table.cols) THEN w
    ELSE IF crit = IdCol THEN Zero
    ELSE IF row.cells[crit] = Missing THEN Zero
    ELSE RMul(Rat(CellValue(row.cells[crit]), 1), w)

\* Contribution with 1.0, not 0.0, taken for a missing value at line 318
Contribution_MissingCountsAsOne(table, row, crit, w) ==
    IF crit \notin Range(table.cols) THEN Zero
    ELSE IF crit = IdCol THEN Zero
    ELSE IF row.cells[crit] = Missing THEN w
    ELSE RMul(Rat(CellValue(row.cells[crit]), 1), w)

\* lines 315-321: what one item of global_weights adds to the score of a row.
\* The value of the country_code column is no number: float() raises and the
\* except branch takes 0.
Contribution(table, row, crit, w) ==
    IF crit \notin Range(table.cols) THEN Zero            \* line 322
    ELSE IF crit = IdCol THEN Zero
    ELSE IF row.cells[crit] = Missing THEN Zero           \* pd.notna(val)
    ELSE RMul(Rat(CellValue(row.cells[crit]), 1), w)

RECURSIVE RowScore(_, _, _, _)
\* lines 313-321: total_score after the items i.. of global_weights
RowScore(table, row, gw, i) ==
    IF i > Len(gw) THEN Zero
    ELSE RAdd(Contribution(table, row, gw[i].k, gw[i].v), RowScore(table, row, gw, i + 1))

\* lines 311-324: results_df
ScoreRows(table, gw) ==
    [i \in DOMAIN table.rows |->
        [country_code |-> table.rows[i].id,
         AHP_Score |-> RowScore(table, table.rows[i], gw, 1)]]

\* line 328, one left row: one merged row per matching row of the lookup, in
\* its order; a row with a NaN name when none matches.
MergeRow(r, names) ==
    LET hits == SelectSeq(names, LAMBDA n : n.country_code = r.country_code)
    IN  IF hits = <<>>
        THEN <<[country_code |-> r.country_code, country_name |-> Missing,
                AHP_Score |-> r.AHP_Score]>>
        ELSE [j \in DOMAIN hits |->
                [country_code |-> r.country_code,
                 country_name |-> CellOf(hits[j].country_name),
                 AHP_Score |-> r.AHP_Score]]

RECURSIVE MergeLeft(_, _)
\* line 328: results_df.merge(countries_df, on="country_code", how="left")
MergeLeft(results, names) ==
    IF results = <<>> THEN <<>>
    ELSE MergeRow(Head(results), names) \o MergeLeft(Tail(results), names)

\* InsertByScore with ascending=True
InsertByScore_Ascending(sorted, x) ==
    SelectSeq(sorted, LAMBDA y : RLe(y.AHP_Score, x.AHP_Score))
    \o <<x>>
    \o SelectSeq(sorted, LAMBDA y : RLt(x.AHP_Score, y.AHP_Score))

\* x put into a sequence sorted by score, descending, behind the rows whose
\* score is at least its own
InsertByScore(sorted, x) ==
    SelectSeq(sorted, LAMBDA y : RLe(x.AHP_Score, y.AHP_Score))
    \o <<x>>
    \o SelectSeq(sorted, LAMBDA y : RLt(y.AHP_Score, x.AHP_Score))

RECURSIVE SortByScore(_, _)
\* line 329: sort_values("AHP_Score", ascending=False).  The tables of the
\* model are short, and numpy sorts a short array by insertion: rows of equal
\* score keep the order they had.
SortByScore(sorted, rest) ==
    IF rest = <<>> THEN sorted
    ELSE SortByScore(InsertByScore(sorted, Head(rest)), Tail(rest))

\* The whole function: [ranking, warn]
compute_country_scores(table, gw, names) ==
    IF IsEmptyTable(table) THEN [ranking |-> <<>>, warn |-> {}]          \* 303
    ELSE IF ~HasIdCol(table)
    THEN [ranking |-> <<>>, warn |-> {<<"missing country_code">>}]      \* 306
    ELSE [ranking |-> SortByScore(<<>>, MergeLeft(ScoreRows(table, gw), names)),
          warn |-> {}]

----------------------------------------------------------------------------
\* The selection filters (filter_functions.py).  st.session_state is a
\* function whose domain is the set of keys present.

\* Every code and identifier of the model, in the order Python sorts strings.
NameOrder == <<"X", "Y", "Z", "a1", "a2", "b1", "weight", "zz">>
\* sorted(S)
Sorted(S) == SelectSeq(NameOrder, LAMBDA n : n \in S)

\* line 31: hierarchy.get("top", {}).get("sublevels", [])
FilterPillars(h) ==
    IF "top" \in DOMAIN h /\ "sublevels" \in DOMAIN h["top"]
    THEN h["top"].sublevels ELSE <<>>

\* lines 32-35, one pillar: hierarchy.get(p, {}).get("criteria", []) cut to
\* the columns of the table
AvailableCriteria(h, p, table) ==
    IF p.t = "str" /\ p.s \in DOMAIN h /\ "criteria" \in DOMAIN h[p.s]
    THEN SelectSeq(h[p.s].criteria, LAMBDA c : c.code \in AvailableCodes(table))
    ELSE <<>>

RECURSIVE DefaultSelectionFrom(_, _, _, _)
\* lines 37-39: {code: True} over the pillars and their criteria, in order
DefaultSelectionFrom(d, h, table, pillars) ==
    IF pillars = <<>> THEN d
    ELSE LET criteria == AvailableCriteria(h, Head(pillars), table)
             codes == [i \in DOMAIN criteria |-> criteria[i].code]
             Add[i \in 0..Len(codes)] ==
                 IF i = 0 THEN d ELSE DictSet(Add[i - 1], codes[i], TRUE)
         IN  DefaultSelectionFrom(Add[Len(codes)], h, table, Tail(pillars))

\* default_selection with every criterion off
default_selection_AllOff(h, table) ==
    LET d == DefaultSelectionFrom(<<>>, h, table, FilterPillars(h))
    IN  [i \in DOMAIN d |-> [k |-> d[i].k, v |-> FALSE]]

default_selection(h, table) == DefaultSelectionFrom(<<>>, h, table, FilterPillars(h))

\* the entries of a selection map that are on and available, in the order of
\* the map (lines 132-135 and 286-289)
SelectedOf(map, available) ==
    LET on == SelectSeq(map, LAMBDA e : e.v /\ e.k \in available)
    IN  [i \in DOMAIN on |-> on[i].k]

\* Complete with dropna(how="all"): a row is kept when it has any value
Complete_AnyValue(row, subset) == \E c \in Range(subset) : row.cells[c] # Missing

\* a row has a value in every column of subset (dropna(subset=...))
Complete(row, subset) == \A c \in Range(subset) : row.cells[c] # Missing

\* lines 140-144: the columns kept, then the rows that are complete
KeepColumns(table, codes) ==
    [cols |-> SelectSeq(<<IdCol>> \o codes, LAMBDA c : c \in Range(table.cols)),
     rows |-> [i \in DOMAIN table.rows |->
                 [id |-> table.rows[i].id,
                  cells |-> [c \in Range(codes) |-> table.rows[i].cells[c]]]]]

\* DropNa that drops the first row as well
DropNa_AlsoDropsFirstRow(table, codes) ==
    [table EXCEPT !.rows =
        SelectSeq(IF table.rows = <<>> THEN <<>> ELSE Tail(table.rows),
                  LAMBDA r : Complete(r, codes))]

DropNa(table, codes) ==
    [table EXCEPT !.rows = SelectSeq(table.rows, LAMBDA r : Complete(r, codes))]

\* CodesOrAll without the fallback of lines 137-138
CodesOrAll_NoFallback(picked, available) == picked

\* lines 137-138: nothing selected, and the table has criterion columns
CodesOrAll(picked, available) ==
    IF picked = <<>> /\ available # {} THEN Sorted(available) ELSE picked

\* select_and_filter_criteria with the dialog closed:
\* [selected_codes, df_filtered, session, err]
select_and_filter_criteria(table, h, ss) ==
    LET ss1 == IF "selected_criteria" \in DOMAIN ss THEN ss
               ELSE ("selected_criteria" :> default_selection(h, table)) @@ ss
        ss2 == IF "show_criteria_modal" \in DOMAIN ss1 THEN ss1
               ELSE ("show_criteria_modal" :> FALSE) @@ ss1
        picked == SelectedOf(ss2["selected_criteria"], AvailableCodes(table))
        codes == CodesOrAll(picked, AvailableCodes(table))
    IN  IF \E p \in Range(FilterPillars(h)) : p.t # "str"
        THEN [selected_codes |-> <<>>, df_filtered |-> table, session |-> ss,
              err |-> "TypeError"]                                  \* line 33
        ELSE IF ~HasIdCol(table)
        THEN [selected_codes |-> <<>>, df_filtered |-> table, session |-> ss1,
              err |-> "KeyError"]                                   \* 45, 48
        ELSE [selected_codes |-> codes,
              df_filtered |-> IF codes = <<>> THEN KeepColumns(table, codes)
                              ELSE DropNa(KeepColumns(table, codes), codes),
              session |-> ss2,
              err |-> ""]

RECURSIVE Unique(_, _)
\* the values of a sequence, each once, in the order first met
Unique(seen, s) ==
    IF s = <<>> THEN <<>>
    ELSE IF Head(s) \in seen THEN Unique(seen, Tail(s))
    ELSE <<Head(s)>> \o Unique(seen \cup {Head(s)}, Tail(s))

\* lines 166-168: the identifiers of the table
CountryCodes(table) == Unique({}, [i \in DOMAIN table.rows |-> table.rows[i].id])

\* lines 291-292
CountriesOrAll(picked, available) ==
    IF picked = <<>> THEN Sorted(available) ELSE picked

\* select_and_filter_countries with the dialog closed:
\* [selected_countries, df_filtered, session, warn]
select_and_filter_countries(table, ss) ==
    IF IsEmptyTable(table)
    THEN [selected_countries |-> <<>>, df_filtered |-> table, session |-> ss,
          warn |-> {}]                                              \* 159
    ELSE IF ~HasIdCol(table)
    THEN [selected_countries |-> <<>>, df_filtered |-> table, session |-> ss,
          warn |-> {<<"missing country_code">>}]                   \* 162
    ELSE
    LET available_codes == CountryCodes(table)
        ss1 == IF "selected_countries" \in DOMAIN ss THEN ss
               ELSE ("selected_countries" :>
                        [i \in DOMAIN available_codes |->
                            [k |-> available_codes[i], v |-> TRUE]]) @@ ss
        ss2 == IF "show_countries_modal" \in DOMAIN ss1 THEN ss1
               ELSE ("show_countries_modal" :> FALSE) @@ ss1
        picked == SelectedOf(ss2["selected_countries"], Range(available_codes))
        chosen == CountriesOrAll(picked, Range(available_codes))
    IN  [selected_countries |-> chosen,
         df_filtered |-> [table EXCEPT !.rows =
                            SelectSeq(table.rows, LAMBDA r : r.id \in Range(chosen))],
         session |-> ss2,
         warn |-> {}]

----------------------------------------------------------------------------
\* The dialogs of the two filters.  A widget created with key= keeps its value
\* in st.session_state under the key; a click on a button or a checkbox runs
\* the dialog function again with the new widget values.

SelKey(code) == "sel_" \o code
CountryKey(id) == "country_sel_" \o id

\* st.session_state[key] = val, and st.session_state.get(key, default)
SetKey(ss, key, val) == (key :> val) @@ ss
GetKey(ss, key, default) == IF key \in DOMAIN ss THEN ss[key] ELSE default
\* the flag is set: the dialog is drawn by the run
DialogOpen(ss, flag) == flag \in DOMAIN ss /\ ss[flag]
\* d.get(key, default) of a dict
DictGetOr(d, key, default) == IF DictHas(d, key) THEN DictGet(d, key) ELSE default

\* the codes of default_selection, in its order
DialogCodes(h, table) ==
    LET d == default_selection(h, table) IN [i \in DOMAIN d |-> d[i].k]

\* SetCheckboxes that writes the committed map as well
SetCheckboxes_WritesTheMap(ss, codes, val) ==
    LET Put[i \in 0..Len(codes)] ==
            IF i = 0 THEN ss
            ELSE SetKey(SetKey(Put[i - 1], SelKey(codes[i]), val),
                        "selected_criteria",
                        DictSet(Put[i - 1]["selected_criteria"], codes[i], val))
    IN  Put[Len(codes)]

\* lines 61-62 and 64-65: every checkbox set to val
SetCheckboxes(ss, codes, val) ==
    LET Put[i \in 0..Len(codes)] ==
            IF i = 0 THEN ss ELSE SetKey(Put[i - 1], SelKey(codes[i]), val)
    IN  Put[Len(codes)]

\* lines 72-97: the checkboxes drawn; one that has no value yet takes the
\* committed one (lines 89-91)
RenderCheckboxes(ss, codes) ==
    LET Draw[i \in 0..Len(codes)] ==
            IF i = 0 THEN ss
            ELSE IF SelKey(codes[i]) \in DOMAIN Draw[i - 1] THEN Draw[i - 1]
            ELSE SetKey(Draw[i - 1], SelKey(codes[i]),
                        DictGetOr(ss["selected_criteria"], codes[i], TRUE))
    IN  Draw[Len(codes)]

\* MissingPillars without the validation of lines 102-110
MissingPillars_NoValidation(ss, h, table) == <<>>

\* lines 102-110: the pillars without a checked criterion
MissingPillars(ss, h, table) ==
    SelectSeq(FilterPillars(h),
              LAMBDA p : \A c \in Range(AvailableCriteria(h, p, table)) :
                            ~GetKey(ss, SelKey(c.code), FALSE))

\* lines 120-121: the checkbox values written to the committed map
CommitCheckboxes(ss, codes) ==
    LET Put[i \in 0..Len(codes)] ==
            IF i = 0 THEN ss["selected_criteria"]
            ELSE DictSet(Put[i - 1], codes[i], GetKey(ss, SelKey(codes[i]), FALSE))
    IN  Put[Len(codes)]

\* lines 99-127, the checkboxes drawn: what the button clicked does.
\* [session, then, warn], then = "rerun" after st.rerun(), "stop" after
\* st.stop(), "done" when the function returns.
DialogButtons(ss, h, table, clicked, codes) ==
    IF clicked = "Apply"
    THEN IF MissingPillars(ss, h, table) # <<>>
         THEN [session |-> ss, then |-> "stop",
               warn |-> {<<"select at least one criterion in each category">>}]
         ELSE [session |-> SetKey(SetKey(ss, "selected_criteria",
                                         CommitCheckboxes(ss, codes)),
                                  "show_criteria_modal", FALSE),
               then |-> "rerun", warn |-> {}]
    ELSE IF clicked = "Cancel"
    THEN [session |-> SetKey(ss, "show_criteria_modal", FALSE),
          then |-> "rerun", warn |-> {}]
    ELSE [session |-> ss, then |-> "done", warn |-> {}]

\* lines 59-97: the two buttons above the checkboxes, then the checkboxes
DialogCheckboxes(ss, clicked, codes) ==
    RenderCheckboxes(IF clicked = "Select All" THEN SetCheckboxes(ss, codes, TRUE)
                     ELSE IF clicked = "Deselect All"
                     THEN SetCheckboxes(ss, codes, FALSE)
                     ELSE ss,
                     codes)

\* _criteria_dialog with the codes of default_selection
DialogOver(ss, h, table, clicked, codes) ==
    DialogButtons(DialogCheckboxes(ss, clicked, codes), h, table, clicked, codes)

\* _criteria_dialog (lines 55-127) run with the button clicked ("" for none)
criteria_dialog(ss, h, table, clicked) ==
    DialogOver(ss, h, table, clicked, DialogCodes(h, table))

\* what a run returns: d of the dialog, r of lines 132-148, before the values
\* the page had.  After st.stop() nothing is returned.
RunReturns(d, r, before) ==
    IF d.then = "stop"
    THEN [selected_codes |-> before.selected_codes,
          df_filtered |-> before.df_filtered,
          session |-> d.session, then |-> "stop", warn |-> d.warn]
    ELSE [selected_codes |-> r.selected_codes, df_filtered |-> r.df_filtered,
          session |-> r.session, then |-> d.then, warn |-> d.warn]

\* lines 132-148 after the dialog; after st.rerun() they are those of the next
\* run, which finds the dialog closed
RunAfterDialog(table, h, d, before) ==
    RunReturns(d, select_and_filter_criteria(table, h, d.session), before)

\* lines 129-130
RunDialog(table, h, ss, clicked, before) ==
    RunAfterDialog(table, h,
                   IF ss["show_criteria_modal"]
                   THEN criteria_dialog(ss, h, table, clicked)
                   ELSE [session |-> ss, then |-> "done", warn |-> {}],
                   before)

\* One script run of select_and_filter_criteria with its dialog:
\* [selected_codes, df_filtered, session, then, warn]
criteria_run(table, h, ss, clicked, before) ==
    RunDialog(table, h, select_and_filter_criteria(table, h, ss).session,
              clicked, before)

\* The countries dialog.  The model gives select_and_filter_countries no
\* lookup, so every country is of the region "Other" (lines 170-177).
RegionKey == "region_sel_Other"

\* lines 223-224 and 226-227, and 256-257: every country checkbox set to val
SetCountryCheckboxes(ss, ids, val) ==
    LET Put[i \in 0..Len(ids)] ==
            IF i = 0 THEN ss ELSE SetKey(Put[i - 1], CountryKey(ids[i]), val)
    IN  Put[Len(ids)]

\* lines 235-238: a checkbox that has no value yet takes the committed one
InitCountryCheckboxes(ss, ids) ==
    LET Draw[i \in 0..Len(ids)] ==
            IF i = 0 THEN ss
            ELSE IF CountryKey(ids[i]) \in DOMAIN Draw[i - 1] THEN Draw[i - 1]
            ELSE SetKey(Draw[i - 1], CountryKey(ids[i]),
                        DictGetOr(ss["selected_countries"], ids[i], TRUE))
    IN  Draw[Len(ids)]

\* lines 254-257: the value of the region's checkbox given to every country
\* when it differs from "all selected"
PropagateRegion(ss, ids, region_default_checked) ==
    IF ss[RegionKey] # region_default_checked
    THEN SetCountryCheckboxes(ss, ids, ss[RegionKey])
    ELSE ss

\* lines 240-257: the checkbox of the region, new with the value "all
\* selected" (lines 243-244)
RegionCheckbox(ss, ids, region_default_checked) ==
    PropagateRegion(IF RegionKey \in DOMAIN ss THEN ss
                    ELSE SetKey(ss, RegionKey, region_default_checked),
                    ids, region_default_checked)

\* lines 240-241: every country of the region is selected
AllSelected(ss, ids) ==
    \A i \in DOMAIN ids : GetKey(ss, CountryKey(ids[i]), TRUE)

\* lines 235-257 for the checkboxes initialised
RegionOver(ss, ids) == RegionCheckbox(ss, ids, AllSelected(ss, ids))

\* lines 230-266, the one region
RenderRegion(ss, ids) == RegionOver(InitCountryCheckboxes(ss, ids), ids)

\* lines 272-273: the checkbox values written to the committed map
CommitCountryCheckboxes(ss, ids) ==
    LET Put[i \in 0..Len(ids)] ==
            IF i = 0 THEN ss["selected_countries"]
            ELSE DictSet(Put[i - 1], ids[i], GetKey(ss, CountryKey(ids[i]), TRUE))
    IN  Put[Len(ids)]

\* lines 278-279: the committed values written back to the checkboxes.  The
\* checkboxes of ids were created earlier in the same run (line 263), and
\* Streamlit may refuse a write to the key of a widget the run has created:
\* refused says whether it does.  [session, err]
ResetCountryCheckboxes(ss, ids, refused) ==
    LET map == ss["selected_countries"]
        Put[i \in 0..Len(map)] ==
            IF i = 0 THEN [session |-> ss, err |-> ""]
            ELSE IF Put[i - 1].err # "" THEN Put[i - 1]
            ELSE IF refused /\ map[i].k \in Range(ids)
            THEN [session |-> Put[i - 1].session, err |-> "StreamlitAPIException"]
            ELSE [session |-> SetKey(Put[i - 1].session, CountryKey(map[i].k), map[i].v),
                  err |-> ""]
    IN  Put[Len(map)]

\* lines 277-281: Cancel, back what the writes of lines 278-279 gave
CancelOver(back) ==
    IF back.err # ""
    THEN [session |-> back.session, then |-> "raise", err |-> back.err]
    ELSE [session |-> SetKey(back.session, "show_countries_modal", FALSE),
          then |-> "rerun", err |-> ""]

\* lines 270-281, the checkboxes drawn: what the button clicked does.
\* [session, then, err]
CountryButtons(ss, ids, clicked, refused) ==
    IF clicked = "Apply"
    THEN [session |-> SetKey(SetKey(ss, "selected_countries",
                                    CommitCountryCheckboxes(ss, ids)),
                             "show_countries_modal", FALSE),
          then |-> "rerun", err |-> ""]
    ELSE IF clicked = "Cancel"
    THEN CancelOver(ResetCountryCheckboxes(ss, ids, refused))
    ELSE [session |-> ss, then |-> "done", err |-> ""]

\* lines 221-266: the two buttons above the region, then the region
CountryCheckboxes(ss, ids, clicked) ==
    RenderRegion(IF clicked = "Select All Countries"
                 THEN SetCountryCheckboxes(ss, ids, TRUE)
                 ELSE IF clicked = "Deselect All Countries"
                 THEN SetCountryCheckboxes(ss, ids, FALSE)
                 ELSE ss,
                 ids)

\* _countries_dialog with the identifiers of the table
CountriesDialogOver(ss, ids, clicked, refused) ==
    CountryButtons(CountryCheckboxes(ss, ids, clicked), ids, clicked, refused)

\* _countries_dialog (lines 217-281) run with the button clicked ("" for
\* none): [session, then, err]
countries_dialog(ss, table, clicked, refused) ==
    CountriesDialogOver(ss, CountryCodes(table), clicked, refused)

\* what a run returns: d of the dialog, r of lines 286-297, before the values
\* the page had.  No value is returned by a run that raises.
CountriesRunReturns(d, r, before) ==
    IF d.then = "raise"
    THEN [selected_countries |-> before.selected_countries,
          df_filtered |-> before.df_filtered,
          session |-> d.session, then |-> "raise", err |-> d.err]
    ELSE [selected_countries |-> r.selected_countries,
          df_filtered |-> r.df_filtered,
          session |-> r.session, then |-> d.then, err |-> ""]

\* lines 286-297 after the dialog
CountriesRunAfterDialog(table, d, before) ==
    CountriesRunReturns(d, select_and_filter_countries(table, d.session), before)

\* lines 283-284
CountriesRunDialog(table, ss, clicked, refused, before) ==
    CountriesRunAfterDialog(
        table,
        IF DialogOpen(ss, "show_countries_modal")
        THEN countries_dialog(ss, table, clicked, refused)
        ELSE [session |-> ss, then |-> "done", err |-> ""],
        before)

\* One script run of select_and_filter_countries with its dialog:
\* [selected_countries, df_filtered, session, then, err]
countries_run(table, ss, clicked, refused, before) ==
    CountriesRunDialog(table, select_and_filter_countries(table, ss).session,
                       clicked, refused, before)

----------------------------------------------------------------------------
\* Inputs: hierarchy files, tables, name tables.

\* Most criteria of one pillar of a hierarchy file.
MaxCrit == 2

Crit(code) == JDict([label |-> <<"label of", code>>, code |-> code])
\* a criterion with no code: dropped by the parser
NoCode == JDict([label |-> <<"label of", "nothing">>])
Level(id, elements) ==
    [id |-> id, label |-> <<"label of", id>>, elements |-> JList(elements)]
TopLevel(subs) == Level("top", [i \in DOMAIN subs |-> JStr(subs[i])])

SeqsUpTo(S, n) == UNION {[1..m -> S] : m \in 1..n}

\* The pillars a top level lists: both pillars, one, and one that no level
\* defines.
TopChoices == {<<"A", "B">>, <<"A">>, <<"A", "Z">>}
\* Pillar A may hold a criterion whose code is the string "weight"; pillar B
\* may repeat a code of pillar A.
ElementsA == SeqsUpTo({Crit("a1"), Crit("a2"), Crit("weight"), NoCode}, MaxCrit)
ElementsB == SeqsUpTo({Crit("b1"), Crit("a1")}, MaxCrit)

LevelInputs ==
    {<<TopLevel(t), Level("A", ea), Level("B", eb)>> :
        t \in TopChoices, ea \in ElementsA, eb \in ElementsB}
    \cup {<<Level("A", ea)>> : ea \in ElementsA}        \* no top level

Ids == SubSeq(<<"X", "Y", "Z">>, 1, MaxRows)
Cells == {Missing} \cup {CellOf(v) : v \in 0..MaxVal}

\* all tables with the columns cols whose rows carry the identifiers ids
TablesOver(cols, ids) ==
    {[cols |-> cols,
      rows |-> [i \in DOMAIN ids |-> [id |-> ids[i], cells |-> cells[i]]]] :
        cells \in [DOMAIN ids -> [Range(cols) \ {IdCol} -> Cells]]}

Reverse(s) == [i \in DOMAIN s |-> s[Len(s) + 1 - i]]

\* the identifiers of a file of up to MaxRows rows, in ascending and in
\* descending order
IdSeqs ==
    {SubSeq(Ids, 1, m) : m \in 0..MaxRows}
    \cup {Reverse(SubSeq(Ids, 1, m)) : m \in 0..MaxRows}

\* one row with a value in every column: the table of a run that only
\* weights
OneRow(cols) ==
    [cols |-> cols,
     rows |-> <<[id |-> "X", cells |-> [c \in Range(cols) \ {IdCol} |-> CellOf(1)]]>>]

NameTables ==
    {<<>>,
     <<[country_code |-> "X", country_name |-> "Xland"]>>,
     <<[country_code |-> "X", country_name |-> "Xland"],
       [country_code |-> "Y", country_name |-> "Yland"]>>}

----------------------------------------------------------------------------
\* run_dynamic_ahp (streamlit_app.py, lines 378-471): one script run.

NoTable == [cols |-> <<>>, rows |-> <<>>]

\* lines 382-384
Parse ==
    /\ pc = "start"
    /\ hierarchy' = parse_ahp_structure(levels)
    /\ warnings' = warnings \cup ParseWarnings(levels)
    /\ pc' = IF DOMAIN hierarchy' = {} THEN "stopped" ELSE "parsed"
    /\ UNCHANGED <<levels, df, lookup, session, order, selected_codes,
                   selected_countries, df_filtered, raw, weights,
                   global_weights, ranking, err>>

\* the number of sliders get_user_weights shows for pillar i
SlidersOf(h, table, i) ==
    LET sub == TopSublevels(h)[i]
    IN  IF sub.t = "str" /\ sub.s \in DOMAIN h
        THEN Len(PillarCriteria(h, sub.s, table)) ELSE 0

RawValues == 0..MaxRaw

\* the positions the user may have given the sliders of the criteria
CriterionRaws(h, table) ==
    {f \in [DOMAIN TopSublevels(h) -> UNION {[1..m -> RawValues] : m \in 0..MaxCrit}] :
        \A i \in DOMAIN f : DOMAIN f[i] = 1..SlidersOf(h, table, i)}

\* line 395
GetUserWeights ==
    /\ pc = "parsed"
    /\ \E rawTop \in [DOMAIN TopSublevels(hierarchy) -> RawValues],
          rawCrit \in CriterionRaws(hierarchy, df) :
          LET r == get_user_weights(hierarchy, df, rawTop, rawCrit)
          IN  /\ raw' = [top |-> rawTop, crit |-> rawCrit]
              /\ weights' = r.w
              /\ warnings' = warnings \cup r.warn
              /\ err' = r.err
              /\ pc' = IF r.err = "" THEN "weights" ELSE "crashed"
    /\ UNCHANGED <<levels, hierarchy, df, lookup, session, order, selected_codes,
                   selected_countries, df_filtered, global_weights, ranking>>

\* line 398
ComputeGlobalWeights ==
    /\ pc = "weights"
    /\ global_weights' = compute_global_weights(weights)
    /\ pc' = "global"
    /\ UNCHANGED <<levels, hierarchy, df, lookup, session, order, selected_codes,
                   selected_countries, df_filtered, raw, weights, warnings,
                   ranking, err>>

\* line 453
ComputeCountryScores ==
    /\ pc = "global"
    /\ LET r == compute_country_scores(df, global_weights, lookup)
       IN  /\ ranking' = r.ranking
           /\ warnings' = warnings \cup r.warn
    /\ pc' = "scored"
    /\ UNCHANGED <<levels, hierarchy, df, lookup, session, order, selected_codes,
                   selected_countries, df_filtered, raw, weights,
                   global_weights, err>>

\* The column sets of the tables a run weights: every code of the hierarchy
\* files, the codes of pillar A alone, and a table without pillar A's "a2".
WeightColumns ==
    {<<IdCol, "a1", "a2", "b1", "weight">>, <<IdCol, "a1", "a2", "weight">>,
     <<IdCol, "a1", "b1">>}

Init ==
    /\ levels \in LevelInputs
    /\ df \in {OneRow(cols) : cols \in WeightColumns}
    /\ lookup = <<>>
    /\ hierarchy = EmptyHierarchy
    /\ session = EmptyHierarchy
    /\ order = "none"
    /\ selected_codes = <<>>
    /\ selected_countries = <<>>
    /\ df_filtered = NoTable
    /\ raw = [top |-> <<>>, crit |-> <<>>]
    /\ weights = <<>>
    /\ warnings = {}
    /\ global_weights = <<>>
    /\ ranking = <<>>
    /\ pc = "start"
    /\ err = ""

Next ==
    \/ Parse
    \/ GetUserWeights
    \/ ComputeGlobalWeights
    \/ ComputeCountryScores

Spec == Init /\ [][Next]_vars

----------------------------------------------------------------------------
\* compute_country_scores as a function of its arguments: any table, any
\* mapping of weights, any name table.

W(n, d) == Rat(n, d)
GlobalWeightInputs ==
    {<<>>,
     <<[k |-> "a1", v |-> W(1, 2)], [k |-> "b1", v |-> W(1, 2)]>>,
     <<[k |-> "a1", v |-> W(1, 3)], [k |-> "b1", v |-> W(2, 3)]>>,
     <<[k |-> "a1", v |-> W(1, 1)], [k |-> "b1", v |-> W(0, 1)]>>,
     <<[k |-> "a1", v |-> W(1, 4)], [k |-> "zz", v |-> W(3, 4)]>>,
     <<[k |-> "zz", v |-> W(1, 2)], [k |-> "b1", v |-> W(1, 2)]>>}

\* a table without the identifier column: its rows have no identifier
NoIdTables(cols) ==
    {[cols |-> cols, rows |-> <<[id |-> "", cells |-> cells]>>] :
        cells \in [Range(cols) -> Cells]}

ScoreTables ==
    UNION {TablesOver(<<IdCol, "a1", "b1">>, ids) : ids \in IdSeqs}
    \cup NoIdTables(<<"a1", "b1">>)

InitScores ==
    /\ df \in ScoreTables
    /\ global_weights \in GlobalWeightInputs
    /\ lookup \in NameTables
    /\ levels = <<>>
    /\ hierarchy = EmptyHierarchy
    /\ session = EmptyHierarchy
    /\ order = "none"
    /\ selected_codes = <<>>
    /\ selected_countries = <<>>
    /\ df_filtered = NoTable
    /\ raw = [top |-> <<>>, crit |-> <<>>]
    /\ weights = <<>>
    /\ warnings = {}
    /\ ranking = <<>>
    /\ pc = "global"
    /\ err = ""

SpecScores == InitScores /\ [][ComputeCountryScores]_vars

----------------------------------------------------------------------------
\* The selection filters as the page runs them: one after the other on the
\* loaded table, the second on the table the first returned.  The page that
\* calls them is not part of the sources, so both orders are modelled.

FilterInput == IF pc = "filter" THEN df ELSE df_filtered
AfterFilter == IF pc = "filter" THEN "filter1" ELSE "filtered"

FilterCriteria ==
    /\ <<pc, order>> \in {<<"filter", "criteria first">>, <<"filter1", "countries first">>,
                           <<"filter", "criteria twice">>, <<"filter1", "criteria twice">>}
    /\ LET r == select_and_filter_criteria(FilterInput, hierarchy, session)
       IN  /\ selected_codes' = r.selected_codes
           /\ df_filtered' = r.df_filtered
           /\ session' = r.session
           /\ err' = r.err
           /\ pc' = IF r.err = "" THEN AfterFilter ELSE "crashed"
    /\ UNCHANGED <<levels, hierarchy, df, lookup, order, selected_countries, raw,
                   weights, warnings, global_weights, ranking>>

FilterCountries ==
    /\ <<pc, order>> \in {<<"filter", "countries first">>, <<"filter1", "criteria first">>,
                           <<"filter", "countries twice">>, <<"filter1", "countries twice">>}
    /\ LET r == select_and_filter_countries(FilterInput, session)
       IN  /\ selected_countries' = r.selected_countries
           /\ df_filtered' = r.df_filtered
           /\ session' = r.session
           /\ warnings' = warnings \cup r.warn
    /\ pc' = AfterFilter
    /\ UNCHANGED <<levels, hierarchy, df, lookup, order, selected_codes, raw,
                   weights, global_weights, ranking, err>>

FilterLevels ==
    {<<TopLevel(<<"A", "B">>), Level("A", <<Crit("a1")>>), Level("B", <<Crit("b1")>>)>>,
     <<TopLevel(<<"A", "B">>), Level("A", <<Crit("a1"), Crit("a2")>>),
       Level("B", <<Crit("b1")>>)>>}

\* what a cell is to the filters: a value or none
FilterCells == {Missing, CellOf(1)}

FilterTablesOver(cols, ids) ==
    {[cols |-> cols,
      rows |-> [i \in DOMAIN ids |-> [id |-> ids[i], cells |-> cells[i]]]] :
        cells \in [DOMAIN ids -> [Range(cols) \ {IdCol} -> FilterCells]]}

\* Tables whose columns are criteria of the hierarchy, tables with a column
\* ("zz") that is none, and a table without the identifier column.
FilterTables ==
    UNION {FilterTablesOver(cols, ids) :
             cols \in {<<IdCol, "a1", "b1">>, <<IdCol, "a1", "zz">>, <<IdCol, "zz">>},
             ids \in IdSeqs}
    \cup FilterTablesOver(<<"a1", "b1">>, <<"">>)

\* every map of the keys to booleans, as a dict in the order of keys
BoolDicts(keys) ==
    {[i \in DOMAIN keys |-> [k |-> keys[i], v |-> f[i]]] : f \in [DOMAIN keys -> BOOLEAN]}

\* The session a run finds: no map yet (a first run), or the maps an earlier
\* run or dialog left.
SessionInputs ==
    {sc @@ sn :
        sc \in {EmptyHierarchy}
               \cup {("selected_criteria" :> m) : m \in BoolDicts(<<"a1", "b1">>)},
        sn \in {EmptyHierarchy}
               \cup {("selected_countries" :> m) : m \in BoolDicts(Ids)}}

InitFilter ==
    /\ levels \in FilterLevels
    /\ hierarchy = parse_ahp_structure(levels)
    /\ df \in FilterTables
    /\ session \in SessionInputs
    /\ order \in {"criteria first", "countries first"}
    /\ lookup = <<>>
    /\ selected_codes = <<>>
    /\ selected_countries = <<>>
    /\ df_filtered = NoTable
    /\ raw = [top |-> <<>>, crit |-> <<>>]
    /\ weights = <<>>
    /\ warnings = {}
    /\ global_weights = <<>>
    /\ ranking = <<>>
    /\ pc = "filter"
    /\ err = ""

NextFilter == FilterCriteria \/ FilterCountries

SpecFilter == InitFilter /\ [][NextFilter]_vars

----------------------------------------------------------------------------
\* What the claims speak of, read off the state of a run.

\* get_user_weights has returned
Returned == pc \in {"weights", "global", "scored"}
\* compute_global_weights has returned
Combined == pc \in {"global", "scored"}

\* the pillars of the run, by position in top's sublevels
Pillars == DOMAIN TopSublevels(hierarchy)
PillarId(i) == TopSublevels(hierarchy)[i].s
\* the codes of the criteria scope of pillar i
ScopeCodes(i) ==
    LET criteria == PillarCriteria(hierarchy, PillarId(i), df)
    IN  [j \in DOMAIN criteria |-> criteria[j].code]
\* the weights the returned dict holds for pillar i and for its criterion j
PillarWeight(i) == DictGet(DictGet(weights, PillarId(i)), WeightKey)
CriterionWeight(i, j) == DictGet(DictGet(weights, PillarId(i)), ScopeCodes(i)[j])

RECURSIVE SumInts(_)
SumInts(s) == IF s = <<>> THEN 0 ELSE Head(s) + SumInts(Tail(s))

PillarWeightSum == RSumSeq([i \in Pillars |-> PillarWeight(i)])
CriterionWeightSum(i) == RSumSeq([j \in DOMAIN ScopeCodes(i) |-> CriterionWeight(i, j)])

\* every sublevel of top is a level of the hierarchy
PillarsDefined ==
    \A i \in Pillars :
        TopSublevels(hierarchy)[i].t = "str" /\ PillarId(i) \in DOMAIN hierarchy

----------------------------------------------------------------------------
\* C1: for every non-empty scope (the pillars, and the criteria of each
\* pillar) whose raw weights have a positive total, the weights
\* get_user_weights returns for the scope are raw / total and sum to 1.
C1_NormalizedScopes ==
    Returned =>
        /\ SumInts(raw.top) > 0 =>
              /\ \A i \in Pillars :
                    PillarWeight(i) = Rat(raw.top[i], SumInts(raw.top))
              /\ PillarWeightSum = One
        /\ \A i \in Pillars :
              SumInts(raw.crit[i]) > 0 =>
                 /\ \A j \in DOMAIN ScopeCodes(i) :
                       CriterionWeight(i, j) = Rat(raw.crit[i][j], SumInts(raw.crit[i]))
                 /\ CriterionWeightSum(i) = One

\* C2: compute_global_weights emits pillar weight x criterion weight for
\* every code weighted under a pillar, whatever the code, and nothing else.
C2_GlobalWeightIsProduct ==
    Combined =>
        /\ \A i \in Pillars : \A j \in DOMAIN ScopeCodes(i) :
              /\ DictHas(global_weights, ScopeCodes(i)[j])
              /\ DictGet(global_weights, ScopeCodes(i)[j])
                    = RMul(PillarWeight(i), CriterionWeight(i, j))
        /\ \A c \in DictKeys(global_weights) :
              \E i \in Pillars : c \in Range(ScopeCodes(i))

\* C3: when the pillar weights sum to 1 and the criterion weights of every
\* pillar sum to 1, the global weights sum to 1.
C3_GlobalWeightsSumToOne ==
    (/\ Combined
     /\ PillarWeightSum = One
     /\ \A i \in Pillars : CriterionWeightSum(i) = One)
    => RSumSeq(DictValues(global_weights)) = One

\* C6: a non-empty scope whose raw weights are all 0 gets 1/N for every key
\* and a warning, and the run goes on: it does not end in get_user_weights.
C6_EqualWeightFallback ==
    /\ Returned =>
          /\ SumInts(raw.top) = 0 =>
                /\ \A i \in Pillars : PillarWeight(i) = Rat(1, Len(raw.top))
                /\ <<"all main category weights 0">> \in warnings
          /\ \A i \in Pillars :
                (ScopeCodes(i) # <<>> /\ SumInts(raw.crit[i]) = 0) =>
                   /\ \A j \in DOMAIN ScopeCodes(i) :
                         CriterionWeight(i, j) = Rat(1, Len(ScopeCodes(i)))
                   /\ <<"all criteria 0", PillarId(i)>> \in warnings
    /\ (/\ pc = "crashed"
        /\ PillarsDefined
        /\ \A i \in Pillars : ScopeCodes(i) # <<>> /\ NoDup(ScopeCodes(i)))
       => (SumInts(raw.top) > 0 /\ \A i \in Pillars : SumInts(raw.crit[i]) > 0)

\* get_user_weights meets a pillar whose scope is empty
MeetsEmptyScope ==
    /\ pc \in {"weights", "global", "scored", "crashed"}
    /\ PillarsDefined
    /\ \E i \in Pillars :
          /\ ScopeCodes(i) = <<>>
          /\ \A j \in 1..(i - 1) : ScopeCodes(j) # <<>> /\ NoDup(ScopeCodes(j))

\* C7: normalising an empty scope raises nothing and leaves the pillar
\* without a criterion weight.
C7_EmptyScopeIsEmptyMapping ==
    MeetsEmptyScope =>
        /\ err = ""
        /\ \A i \in Pillars :
              ScopeCodes(i) = <<>> =>
                 DictKeys(DictGet(weights, PillarId(i))) = {WeightKey}

----------------------------------------------------------------------------
\* the codes that are keys of global_weights and columns of the table, and
\* the weighted sum of a row over them
CodesScored == Sorted(DictKeys(global_weights) \cap AvailableCodes(df))
ExpectedScore(row) ==
    RSumSeq([i \in DOMAIN CodesScored |->
               RMul(IF row.cells[CodesScored[i]] = Missing THEN Zero
                    ELSE Rat(CellValue(row.cells[CodesScored[i]]), 1),
                    DictGet(global_weights, CodesScored[i]))])

\* C4: the score of every row is the sum, over the codes that are both keys of
\* global_weights and columns of the table, of the cell (0 when missing) times
\* the weight; a key that is no column adds nothing and raises nothing.
C4_ScoreIsWeightedSum ==
    (pc = "scored" /\ HasIdCol(df)) =>
        /\ err = ""
        /\ \A i \in DOMAIN df.rows : \E n \in DOMAIN ranking :
              /\ ranking[n].country_code = df.rows[i].id
              /\ ranking[n].AHP_Score = ExpectedScore(df.rows[i])
        /\ \A n \in DOMAIN ranking : \E i \in DOMAIN df.rows :
              /\ ranking[n].country_code = df.rows[i].id
              /\ ranking[n].AHP_Score = ExpectedScore(df.rows[i])

\* a scored table with a weighted code that is no column, a row with a
\* missing cell under a weighted column, and a row that scores above 0
C4_Witness ==
    /\ pc = "scored"
    /\ \E c \in DictKeys(global_weights) \ Range(df.cols) :
          DictGet(global_weights, c) # Zero
    /\ \E i \in DOMAIN df.rows : \E c \in Range(CodesScored) :
          df.rows[i].cells[c] = Missing /\ DictGet(global_weights, c) # Zero
    /\ \E n \in DOMAIN ranking : RLt(Zero, ranking[n].AHP_Score)

\* the place of an identifier in ascending order
IdRank(id) == CHOOSE i \in DOMAIN NameOrder : NameOrder[i] = id

----------------------------------------------------------------------------
\* row i of the input is a row of the filtered table; row i has a value for
\* every selected criterion
Survives(i) ==
    \E n \in DOMAIN df_filtered.rows : df_filtered.rows[n].id = df.rows[i].id
HasAllSelected(i) ==
    \A c \in Range(selected_codes) : df.rows[i].cells[c] # Missing

\* C8: the filtered table has the identifier column and the selected
\* criterion columns, no other; a row of the input survives exactly when its
\* entity is selected and it has a value for every selected criterion.
C8_FilteredTable ==
    pc = "filtered" =>
        /\ df_filtered.cols = <<IdCol>> \o selected_codes
        /\ \A i \in DOMAIN df.rows :
              Survives(i) <=>
                 (df.rows[i].id \in Range(selected_countries) /\ HasAllSelected(i))
        /\ \A n \in DOMAIN df_filtered.rows : \E i \in DOMAIN df.rows :
              /\ df_filtered.rows[n].id = df.rows[i].id
              /\ \A c \in Range(selected_codes) :
                    df_filtered.rows[n].cells[c] = df.rows[i].cells[c]
              /\ DOMAIN df_filtered.rows[n].cells = Range(selected_codes)

\* one row survives, another, of a selected entity, was dropped for a missing
\* value, and a column of the input was dropped
C8_Witness ==
    /\ pc = "filtered"
    /\ \E i, j \in DOMAIN df.rows :
          /\ Survives(i)
          /\ ~Survives(j)
          /\ df.rows[j].id \in Range(selected_countries)
    /\ Len(df_filtered.cols) < Len(df.cols)

\* a criterion of the hierarchy is a column of the table
HasAvailableCriterion == default_selection(hierarchy, df) # <<>>

\* C9 as claimed: a table with a row and an available criterion is never
\* filtered to no criterion or to no row.
C9_NeverEmptyResult ==
    (pc = "filtered" /\ HasIdCol(df) /\ df.rows # <<>> /\ HasAvailableCriterion) =>
        /\ selected_codes # <<>>
        /\ df_filtered.rows # <<>>

\* C9 as amended: at least one criterion is selected; with no criterion on,
\* every criterion column is selected, and with no entity on, no row is
\* dropped for its entity; the table has a row whenever every row of the
\* input has a value for every selected criterion.
C9_EmptySelectionFallsBack ==
    (pc = "filtered" /\ HasIdCol(df) /\ df.rows # <<>> /\ HasAvailableCriterion) =>
        /\ selected_codes # <<>>
        /\ SelectedOf(session["selected_criteria"], AvailableCodes(df)) = <<>>
              => selected_codes = Sorted(AvailableCodes(df))
        /\ (/\ "selected_countries" \in DOMAIN session
            /\ \A e \in Range(session["selected_countries"]) :
                  e.v => \A i \in DOMAIN df.rows : df.rows[i].id # e.k)
              => \A i \in DOMAIN df.rows : HasAllSelected(i) => Survives(i)
        /\ (\A i \in DOMAIN df.rows : HasAllSelected(i))
              => (df_filtered.rows # <<>> /\ selected_countries # <<>>)

\* both maps are all off, and the table the filter returns has a row
C9_Witness ==
    /\ pc = "filtered" /\ HasAvailableCriterion
    /\ session["selected_criteria"] # <<>>
    /\ \A e \in Range(session["selected_criteria"]) : ~e.v
    /\ "selected_countries" \in DOMAIN session
    /\ session["selected_countries"] # <<>>
    /\ \A e \in Range(session["selected_countries"]) : ~e.v
    /\ df_filtered.rows # <<>>

\* C10: on a table without the identifier column no operation raises, and the
\* selections and the ranking it returns are empty.
C10_MissingIdentifierIsEmpty ==
    (~HasIdCol(df) /\ pc \in {"filter1", "filtered", "crashed", "scored"}) =>
        /\ err = ""
        /\ selected_codes = <<>>
        /\ selected_countries = <<>>
        /\ ranking = <<>>

----------------------------------------------------------------------------
\* parse_ahp_structure on hierarchy files with malformed entries, followed by
\* the run of run_dynamic_ahp on what it returned.

\* a level without its label, and one without its id
NoLabelLevel(id, elements) == [id |-> id, elements |-> JList(elements)]
NoIdLevel(elements) == [label |-> <<"label of", "nothing">>, elements |-> JList(elements)]
\* a level whose "elements" is no list
ScalarLevel(id) == [id |-> id, label |-> <<"label of", id>>, elements |-> JScalar]

\* The level "top" of a file: a group, a leaf, a level without elements, a
\* level without label, a level whose elements are no list; or none.
TopInputs ==
    {<<TopLevel(<<"A", "B">>)>>, <<TopLevel(<<"A">>)>>,
     <<Level("top", <<Crit("a1")>>)>>, <<Level("top", <<>>)>>,
     <<NoLabelLevel("top", <<JStr("A"), JStr("B")>>)>>, <<ScalarLevel("top")>>,
     <<>>}
PillarAInputs ==
    {Level("A", <<Crit("a1")>>), Level("A", <<Crit("a1"), NoCode>>),
     Level("A", <<NoCode>>), Level("A", <<Crit("a1"), Crit("a1")>>),
     Level("A", <<>>), NoLabelLevel("A", <<Crit("a1")>>)}
PillarBInputs ==
    {Level("B", <<Crit("b1")>>), Level("B", <<Crit("a1")>>),
     NoIdLevel(<<Crit("b1")>>)}

ParseInputs ==
    {t \o <<a, b>> : t \in TopInputs, a \in PillarAInputs, b \in PillarBInputs}

InitParse ==
    /\ levels \in ParseInputs
    /\ df = OneRow(<<IdCol, "a1", "b1">>)
    /\ lookup = <<>>
    /\ hierarchy = EmptyHierarchy
    /\ session = EmptyHierarchy
    /\ order = "none"
    /\ selected_codes = <<>>
    /\ selected_countries = <<>>
    /\ df_filtered = NoTable
    /\ raw = [top |-> <<>>, crit |-> <<>>]
    /\ weights = <<>>
    /\ warnings = {}
    /\ global_weights = <<>>
    /\ ranking = <<>>
    /\ pc = "start"
    /\ err = ""

SpecParse == InitParse /\ [][Next]_vars

\* level j of the file has its three keys and a non-empty list of elements
ValidLevel(j) ==
    /\ LevelKeys \subseteq DOMAIN levels[j]
    /\ levels[j].elements.t = "list"
    /\ levels[j].elements.xs # <<>>
\* level j lists criteria (its first element is an object)
LeafLevel(j) == ValidLevel(j) /\ levels[j].elements.xs[1].t = "dict"
\* the file has a valid level "top" that lists child levels
ValidTopGiven ==
    \E j \in DOMAIN levels :
        ValidLevel(j) /\ levels[j].id = "top" /\ ~LeafLevel(j)

\* C11: without a valid group level "top", parse_ahp_structure returns the
\* empty hierarchy and raises nothing, and the run stops: no weight, no global
\* weight and no score is computed.
C11_NoTopStopsTheRun ==
    (pc # "start" /\ ~ValidTopGiven) =>
        /\ hierarchy = EmptyHierarchy
        /\ pc = "stopped"
        /\ err = ""
        /\ <<"no top level">> \in warnings
        /\ weights = <<>> /\ global_weights = <<>> /\ ranking = <<>>

\* the run stopped on a file whose level "top" is valid but lists criteria
C11_Witness ==
    /\ pc = "stopped"
    /\ \E j \in DOMAIN levels : LeafLevel(j) /\ levels[j].id = "top"
    /\ \E j \in DOMAIN levels : LeafLevel(j) /\ levels[j].id = "A"

\* the well-formed criteria among the elements of level j, in their order
GivenCriteria(j) ==
    LET ok == SelectSeq(levels[j].elements.xs,
                        LAMBDA e : e.t = "dict" /\ {"label", "code"} \subseteq DOMAIN e.d)
    IN  [i \in DOMAIN ok |-> [label |-> ok[i].d.label, code |-> ok[i].d.code]]

\* the hierarchy holds the valid levels of the file and no other, each with
\* its label and with its well-formed criteria or its child levels
HoldsTheValidLevels ==
    /\ \A id \in DOMAIN hierarchy :
          \E j \in DOMAIN levels : ValidLevel(j) /\ levels[j].id = id
    /\ \A j \in DOMAIN levels :
          ValidLevel(j) =>
             /\ levels[j].id \in DOMAIN hierarchy
             /\ hierarchy[levels[j].id].label = levels[j].label
             /\ IF LeafLevel(j)
                THEN hierarchy[levels[j].id]
                        = [label |-> levels[j].label, criteria |-> GivenCriteria(j)]
                ELSE hierarchy[levels[j].id]
                        = [label |-> levels[j].label, sublevels |-> levels[j].elements.xs]

\* C12 as claimed: with a valid top, the result holds exactly the well-formed
\* levels and criteria of the file, and no leaf level of it has zero criteria.
C12_NoLeafWithoutCriteria ==
    (pc # "start" /\ ValidTopGiven) =>
        /\ HoldsTheValidLevels
        /\ \A id \in DOMAIN hierarchy :
              "criteria" \in DOMAIN hierarchy[id] => hierarchy[id].criteria # <<>>

\* What does hold of the parser: with a valid top, the result holds exactly
\* the well-formed levels and criteria of the file, and a leaf level all of
\* whose criteria are malformed is kept, with an empty list of criteria.
KeepsEmptiedLeafLevels ==
    (pc # "start" /\ ValidTopGiven) =>
        /\ HoldsTheValidLevels
        /\ \A j \in DOMAIN levels :
              (LeafLevel(j) /\ GivenCriteria(j) = <<>>) =>
                 hierarchy[levels[j].id].criteria = <<>>

\* the codes of the criteria of level id of the hierarchy
CodesOfLevel(id) ==
    IF "criteria" \in DOMAIN hierarchy[id]
    THEN [i \in DOMAIN hierarchy[id].criteria |-> hierarchy[id].criteria[i].code]
    ELSE <<>>

\* C13: in the hierarchy parse_ahp_structure returned no code occurs twice,
\* in one pillar or in two.
C13_CodesUnique ==
    pc # "start" =>
        /\ \A id \in DOMAIN hierarchy : NoDup(CodesOfLevel(id))
        /\ \A id1, id2 \in DOMAIN hierarchy :
              id1 # id2 => Range(CodesOfLevel(id1)) \cap Range(CodesOfLevel(id2)) = {}

----------------------------------------------------------------------------
\* the display names the lookup holds for an identifier
NamesOf(id) ==
    {lookup[j].country_name : j \in {i \in DOMAIN lookup : lookup[i].country_code = id}}

\* C14: in the ranking an entity without an entry in the name lookup has its
\* identifier as display name, and an entity with an entry has the name of
\* the entry.
C14_NameFallsBackToIdentifier ==
    pc = "scored" =>
        \A n \in DOMAIN ranking :
            IF NamesOf(ranking[n].country_code) = {}
            THEN ranking[n].country_name = CellOf(ranking[n].country_code)
            ELSE \E name \in NamesOf(ranking[n].country_code) :
                    ranking[n].country_name = CellOf(name)

\* the table with the value of row i under criterion c missing
WithoutCell(i, c) == [df EXCEPT !.rows[i].cells[c] = Missing]
\* the criteria that add to a score: keys of global_weights, columns of df
Contributing == DictKeys(global_weights) \cap AvailableCodes(df)

\* C16: with the weights fixed (none negative), the score of a row with the
\* value of one contributing criterion missing is at most the score of the
\* row with the value present (none negative).
C16_MissingValueNeverRaisesScore ==
    (pc = "scored" /\ HasIdCol(df)) =>
        \A i \in DOMAIN df.rows : \A c \in Contributing :
            df.rows[i].cells[c] # Missing =>
               LET other == compute_country_scores(WithoutCell(i, c), global_weights,
                                                   lookup).ranking
               IN  \A m \in DOMAIN other : \A n \in DOMAIN ranking :
                      (/\ other[m].country_code = df.rows[i].id
                       /\ ranking[n].country_code = df.rows[i].id)
                      => RLe(other[m].AHP_Score, ranking[n].AHP_Score)

\* a scored row with a positive value under a criterion of positive weight,
\* and another with the value 0 under such a criterion
C16_Witness ==
    /\ pc = "scored" /\ HasIdCol(df)
    /\ \E i, j \in DOMAIN df.rows : \E c \in Contributing :
          /\ df.rows[i].cells[c] = CellOf(1)
          /\ df.rows[j].cells[c] = CellOf(0)
          /\ RLt(Zero, DictGet(global_weights, c))
    /\ \E n \in DOMAIN ranking : RLt(Zero, ranking[n].AHP_Score)

----------------------------------------------------------------------------
\* the criterion codes of the hierarchy
HierarchyCodes ==
    UNION {Range(CodesOfLevel(id)) : id \in DOMAIN hierarchy}
\* select_and_filter_criteria has returned
CriteriaFiltered ==
    pc = "filtered" \/ (pc = "filter1" /\ order \in {"criteria first", "criteria twice"})

\* C18: the codes select_and_filter_criteria returns are criterion codes of
\* the hierarchy and columns of the table, under every selection map.
C18_SelectedWithinHierarchy ==
    CriteriaFiltered =>
        Range(selected_codes) \subseteq (HierarchyCodes \cap AvailableCodes(df))

----------------------------------------------------------------------------
\* One filter applied to the table it returned, with the session it left.

InitIdem ==
    /\ levels \in FilterLevels
    /\ hierarchy = parse_ahp_structure(levels)
    /\ df \in FilterTables
    /\ session \in SessionInputs
    /\ order \in {"criteria twice", "countries twice"}
    /\ lookup = <<>>
    /\ selected_codes = <<>>
    /\ selected_countries = <<>>
    /\ df_filtered = NoTable
    /\ raw = [top |-> <<>>, crit |-> <<>>]
    /\ weights = <<>>
    /\ warnings = {}
    /\ global_weights = <<>>
    /\ ranking = <<>>
    /\ pc = "filter"
    /\ err = ""

SpecIdem == InitIdem /\ [][NextFilter]_vars

\* C17: a filter applied to the table it returned, with the same selection
\* maps, returns the same selection and the same table.
C17_FilterIsIdempotent ==
    [][(pc = "filter1" /\ pc' = "filtered") =>
          /\ session' = session
          /\ selected_codes' = selected_codes
          /\ selected_countries' = selected_countries
          /\ df_filtered' = df_filtered]_vars

\* the criteria filter ran twice: no code of the map was on, so it fell back
\* to every column, and it dropped a row and kept another
C17_Witness ==
    /\ pc = "filtered" /\ order = "criteria twice"
    /\ SelectedOf(session["selected_criteria"], AvailableCodes(df)) = <<>>
    /\ selected_codes # <<>>
    /\ df_filtered.rows # <<>>
    /\ Len(df_filtered.rows) < Len(df.rows)

----------------------------------------------------------------------------
\* A session of the page: script runs of the two filters, each started by
\* what the user did (a click in a dialog, or anything else on the page).
\* pc names the last thing done.

NoDialogOpen ==
    /\ ~DialogOpen(session, "show_criteria_modal")
    /\ ~DialogOpen(session, "show_countries_modal")

WithoutKeys(ss, keys) == [k \in DOMAIN ss \ keys |-> ss[k]]
\* the keys of the checkboxes of the two dialogs
CriteriaWidgetKeys ==
    {SelKey(c) : c \in Range(DialogCodes(hierarchy, df))}
CountriesWidgetKeys ==
    {CountryKey(c) : c \in Range(CountryCodes(df))} \cup {RegionKey}
\* Streamlit may drop the value of a widget that a run did not draw
AfterRun(ss, flag, keys) ==
    IF DialogOpen(ss, flag) THEN {ss} ELSE {ss, WithoutKeys(ss, keys)}

\* a run of select_and_filter_criteria on the session ss0
CriteriaStep(ss0, clicked, done) ==
    LET r == criteria_run(df, hierarchy, ss0, clicked,
                          [selected_codes |-> selected_codes,
                           df_filtered |-> df_filtered])
    IN  /\ session' \in AfterRun(r.session, "show_criteria_modal", CriteriaWidgetKeys)
        /\ selected_codes' = r.selected_codes
        /\ df_filtered' = r.df_filtered
        /\ warnings' = warnings \cup r.warn
        /\ pc' = IF r.then = "stop" THEN "criteria rejected" ELSE done
        /\ UNCHANGED <<levels, hierarchy, df, lookup, order, selected_countries,
                       raw, weights, global_weights, ranking, err>>

\* a run of select_and_filter_countries on the session ss0
CountriesStep(ss0, clicked, done) ==
    \E refused \in BOOLEAN :
        LET r == countries_run(df, ss0, clicked, refused,
                               [selected_countries |-> selected_countries,
                                df_filtered |-> df_filtered])
        IN  /\ session' \in AfterRun(r.session, "show_countries_modal",
                                     CountriesWidgetKeys)
            /\ selected_countries' = r.selected_countries
            /\ df_filtered' = r.df_filtered
            /\ err' = r.err
            /\ pc' = IF r.then = "raise" THEN "countries cancel raised" ELSE done
            /\ UNCHANGED <<levels, hierarchy, df, lookup, order, selected_codes,
                           raw, weights, warnings, global_weights, ranking>>

\* What the user may do to the criteria filter: [done, clicked, ss], the name
\* of the event, the button clicked and the session the run finds.  The page
\* opens the dialog by setting the flag; a click on a checkbox (line 93)
\* changes the value under its key; anything else on the page runs the
\* script again.
CriteriaEvents ==
    {[done |-> "criteria rerun", clicked |-> "", ss |-> session]}
    \cup (IF NoDialogOpen /\ "selected_criteria" \in DOMAIN session
          THEN {[done |-> "criteria opened", clicked |-> "",
                 ss |-> SetKey(session, "show_criteria_modal", TRUE)]}
          ELSE {})
    \cup (IF DialogOpen(session, "show_criteria_modal")
          THEN {[done |-> "criteria all selected", clicked |-> "Select All",
                 ss |-> session],
                [done |-> "criteria all deselected", clicked |-> "Deselect All",
                 ss |-> session],
                [done |-> "criteria applied", clicked |-> "Apply", ss |-> session],
                [done |-> "criteria cancelled", clicked |-> "Cancel", ss |-> session]}
               \cup {[done |-> "criterion toggled", clicked |-> "",
                      ss |-> SetKey(session, key, ~session[key])] :
                        key \in CriteriaWidgetKeys \cap DOMAIN session}
          ELSE {})

\* a script run of select_and_filter_criteria
CriteriaRun == \E ev \in CriteriaEvents : CriteriaStep(ev.ss, ev.clicked, ev.done)

\* What the user may do to the countries filter; the checkboxes are those of
\* the countries (line 263) and of the region (line 248).
CountriesEvents ==
    {[done |-> "countries rerun", clicked |-> "", ss |-> session]}
    \cup (IF NoDialogOpen /\ "selected_countries" \in DOMAIN session
          THEN {[done |-> "countries opened", clicked |-> "",
                 ss |-> SetKey(session, "show_countries_modal", TRUE)]}
          ELSE {})
    \cup (IF DialogOpen(session, "show_countries_modal")
          THEN {[done |-> "countries all selected",
                 clicked |-> "Select All Countries", ss |-> session],
                [done |-> "countries all deselected",
                 clicked |-> "Deselect All Countries", ss |-> session],
                [done |-> "countries applied", clicked |-> "Apply", ss |-> session],
                [done |-> "countries cancelled", clicked |-> "Cancel", ss |-> session]}
               \cup {[done |-> "country toggled", clicked |-> "",
                      ss |-> SetKey(session, key, ~session[key])] :
                        key \in CountriesWidgetKeys \cap DOMAIN session}
          ELSE {})

\* a script run of select_and_filter_countries
CountriesRun == \E ev \in CountriesEvents : CountriesStep(ev.ss, ev.clicked, ev.done)

\* A table with a column for every criterion, and one without a column for
\* the criterion of pillar B.
DialogTables ==
    {[cols |-> <<IdCol, "a1", "a2", "b1">>,
      rows |-> <<[id |-> "X", cells |-> [c \in {"a1", "a2", "b1"} |-> CellOf(1)]],
                 [id |-> "Y", cells |-> [c \in {"a1", "a2", "b1"} |->
                                            IF c = "a2" THEN Missing ELSE CellOf(1)]]>>],
     [cols |-> <<IdCol, "a1", "zz">>,
      rows |-> <<[id |-> "X", cells |-> [c \in {"a1", "zz"} |-> CellOf(1)]]>>]}

InitDialog ==
    /\ levels \in FilterLevels
    /\ hierarchy = parse_ahp_structure(levels)
    /\ df \in DialogTables
    /\ session = EmptyHierarchy
    /\ order = "none"
    /\ lookup = <<>>
    /\ selected_codes = <<>>
    /\ selected_countries = <<>>
    /\ df_filtered = NoTable
    /\ raw = [top |-> <<>>, crit |-> <<>>]
    /\ weights = <<>>
    /\ warnings = {}
    /\ global_weights = <<>>
    /\ ranking = <<>>
    /\ pc = "start"
    /\ err = ""

NextDialog == CriteriaRun \/ CountriesRun

SpecDialog == InitDialog /\ [][NextDialog]_vars

\* the committed map under the key is there before and after the step, and
\* differs only when the step is the one named
ChangedOnlyBy(key, applied) ==
    key \in DOMAIN session =>
        /\ key \in DOMAIN session'
        /\ session'[key] # session[key] => pc' = applied

\* a checkbox of the criteria dialog holds a value other than the committed one
CheckboxDiffers ==
    /\ "selected_criteria" \in DOMAIN session
    /\ \E e \in Range(session["selected_criteria"]) :
          /\ SelKey(e.k) \in DOMAIN session
          /\ session[SelKey(e.k)] # e.v

\* C15: once built, the committed selection maps (selected_criteria and
\* selected_countries) are changed only by a successful Apply of the dialog
\* of their filter; a rerun, opening a dialog, Select All, Deselect All, a
\* click on a checkbox, Cancel and a rejected Apply leave both as they were.
C15_MapsChangeOnlyByApply ==
    [][/\ ChangedOnlyBy("selected_criteria", "criteria applied")
       /\ ChangedOnlyBy("selected_countries", "countries applied")]_vars

\* the criteria dialog was cancelled with a checkbox edited
C15_Witness == pc = "criteria cancelled" /\ CheckboxDiffers

\* the step is a click on Apply in the criteria dialog
AppliesCriteria == pc' \in {"criteria applied", "criteria rejected"}

\* no criterion the table has for the pillar is checked in the dialog
Unchecked(p) ==
    \A c \in Range(AvailableCriteria(hierarchy, p, df)) :
        ~GetKey(session, SelKey(c.code), FALSE)

\* the pillar has a criterion in the table, and none of them is checked
Deselected(p) ==
    AvailableCriteria(hierarchy, p, df) # <<>> /\ Unchecked(p)

\* the error of lines 112-116
MissingError == <<"select at least one criterion in each category">>

\* C19: when every criterion of one pillar is deselected and Apply is clicked,
\* the Apply is rejected with the error "select at least one criterion in each
\* category": the committed map selected_criteria stays as it was, the
\* codes returned stay as they were and the dialog stays open.
C19_DeselectedPillarIsRejected ==
    [][(AppliesCriteria /\ \E p \in Range(FilterPillars(hierarchy)) : Deselected(p))
        => /\ pc' = "criteria rejected"
           /\ session'["selected_criteria"] = session["selected_criteria"]
           /\ session'["show_criteria_modal"]
           /\ selected_codes' = selected_codes
           /\ MissingError \in warnings']_vars

\* an Apply was rejected while the one criterion of B was deselected and a
\* criterion of A was checked
C19_Witness ==
    /\ pc = "criteria rejected"
    /\ "b1" \in Range(df.cols)
    /\ ~session[SelKey("b1")]
    /\ session[SelKey("a1")]

\* C19 as stated: the Apply with every criterion of one pillar deselected is
\* accepted, and the criteria of that pillar are all selected afterwards.
C19_DeselectedPillarFallsBack ==
    [][AppliesCriteria
        => \A p \in Range(FilterPillars(hierarchy)) :
              Deselected(p)
              => /\ pc' = "criteria applied"
                 /\ \A c \in Range(AvailableCriteria(hierarchy, p, df)) :
                       DictGetOr(session'["selected_criteria"], c.code, FALSE)]_vars

\* every pillar of top has a criterion that is a column of the table
EveryPillarAvailable ==
    \A p \in Range(FilterPillars(hierarchy)) :
        AvailableCriteria(hierarchy, p, df) # <<>>

\* the committed map has a criterion of the pillar set to true
CommittedIn(p) ==
    \E c \in Range(AvailableCriteria(hierarchy, p, df)) :
        DictGetOr(session["selected_criteria"], c.code, FALSE)

\* the committed map is, for every criterion of the dialog, the value of its
\* checkbox before the step
CommitsTheCheckboxes ==
    \A c \in Range(DialogCodes(hierarchy, df)) :
        DictGetOr(session'["selected_criteria"], c, FALSE)
            = GetKey(session, SelKey(c), FALSE)

\* C20: for a hierarchy and a table in which every pillar has an available
\* criterion, the committed map selected_criteria, built as the default
\* selection, has a criterion set to true in every pillar after any sequence
\* of dialog operations; and a click on Apply commits the checkbox values
\* exactly when every pillar of top has a checked criterion, leaving the map
\* as it was otherwise.
C20_EveryPillarKeepsACriterion ==
    /\ []( ("selected_criteria" \in DOMAIN session /\ EveryPillarAvailable)
            => \A p \in Range(FilterPillars(hierarchy)) : CommittedIn(p) )
    /\ [][AppliesCriteria
           => IF \A p \in Range(FilterPillars(hierarchy)) : ~Unchecked(p)
              THEN pc' = "criteria applied" /\ CommitsTheCheckboxes
              ELSE /\ pc' = "criteria rejected"
                   /\ session'["selected_criteria"] = session["selected_criteria"]]_vars

\* an Apply was committed that leaves a criterion off, every pillar having an
\* available criterion
C20_Witness ==
    /\ pc = "criteria applied"
    /\ EveryPillarAvailable
    /\ \E e \in Range(session["selected_criteria"]) : ~e.v

\* C21: in every non-empty hierarchy parse_ahp_structure returns, each
\* element of top's sublevels is the id of a level of the hierarchy, and that
\* level is a leaf level (it has a list of criteria); so get_user_weights
\* raises no KeyError for a pillar that is undefined or was skipped.
C21_TopSublevelsAreLeafLevels ==
    (pc # "start" /\ hierarchy # EmptyHierarchy) =>
        /\ \A i \in Pillars :
              /\ TopSublevels(hierarchy)[i].t = "str"
              /\ PillarId(i) \in DOMAIN hierarchy
              /\ "criteria" \in DOMAIN hierarchy[PillarId(i)]
        /\ err # "KeyError"

====
